---- MODULE Spec2Model ----
(***************************************************************************)
(* Model of revChatGPT V1 (src/src/revChatGPT/V1.py): the conversation     *)
(* state tracker and the streaming response parser of Chatbot.ask and      *)
(* AsyncChatbot.ask, with reset_chat and rollback_conversation.            *)
(*                                                                         *)
(* Python values are dynamically typed; identifiers, texts and error codes *)
(* are modelled as strings (an int code n is the string of n), None is the *)
(* string "None".                                                          *)
(***************************************************************************)
EXTENDS Integers, Sequences, FiniteSets, TLC

\* ---------------------------------------------------------------- bounds
MaxHistory == 1   \* asks are issued while the history stacks are shorter
MaxYield == 1     \* deltas yielded by one ask
MaxUuid == 1      \* calls of uuid.uuid4() whose value reaches the tracker
MaxTime == 2      \* time.time() and the exp claim of a token range over 0..MaxTime

\* ---------------------------------------------------------------- values
None == "None"
ConvIds == {"c1", "c2"}
MsgIds == {"m1", "m2"}
Prompts == {"Hello"}
Texts == {"Hello", "Hi there", "say [DONE]"}
Statuses == {"200", "500"}
Modes == {"sync", "async"}

\* str(uuid.uuid4()): the n-th identifier drawn by this client
uuid4(n) == <<"u1", "u2", "u3", "u4", "u5", "u6">>[n]

\* The remote service: GET api/conversations lists c1 only, and
\* GET api/conversation/c1 reports current_node n1.
RemoteItems == {"c1"}
RemoteCurrentNode == [x \in RemoteItems |-> "n1"]

RATE_LIMIT_DETAIL == "Too many requests in 1 hour. Try again later."

\* ---------------------------------------------------------------- errors
\* class Error(Exception): source, message, code
Error(source, message, code) ==
    [exc |-> "Error", source |-> source, message |-> message, code |-> code]

\* any other exception class raised by the code or by the interpreter
Exc(class, message) ==
    [exc |-> class, source |-> "", message |-> message, code |-> ""]

NoOutcome == [exc |-> "", source |-> "", message |-> "", code |-> ""]
DONE == [exc |-> "DONE", source |-> "", message |-> "", code |-> ""]
CLOSED == [exc |-> "GeneratorExit", source |-> "", message |-> "", code |-> ""]

\* ---------------------------------------------------------------- lines
\* One line of the response body.  kind:
\*   "empty"     the empty line
\*   "fault"     the raw line  Internal Server Error
\*   "done"      data: [DONE]
\*   "garbage"   a fragment that is not JSON
\*   "frame"     data: {"message": {"id": id, "content": {"parts": [text]},
\*                      "metadata": meta}, "conversation_id": conv}
\*   "noparts"   a frame whose content.parts is the empty list
\*   "nocontent" a JSON object without message.content, with a detail field
\*   "nondict"   a JSON value that is not an object (list, number, null)
\* enc is "utf8" when the text is sent as raw non-ASCII UTF-8 bytes.
Metas == {"absent", "empty", "slug"}
Details == {"absent", "ratelimit", "otherstr", "invalidkey", "otherdict", "null"}

Plain(kind) ==
    [kind |-> kind, text |-> "", conversation_id |-> None, id |-> None,
     meta |-> "absent", enc |-> "ascii", detail |-> "absent"]

Frame(text, conv, id, meta, enc) ==
    [kind |-> "frame", text |-> text, conversation_id |-> conv, id |-> id,
     meta |-> meta, enc |-> enc, detail |-> "absent"]

FrameLines ==
    {Frame(t, c, i, m, "ascii") : t \in Texts, c \in ConvIds, i \in MsgIds, m \in Metas}
    \cup {Frame("Hi there", c, "m2", "slug", "utf8") : c \in ConvIds}

NoContentLines == {[Plain("nocontent") EXCEPT !.detail = d] : d \in Details}

Lines ==
    {Plain("empty"), Plain("fault"), Plain("done"), Plain("garbage"),
     Plain("noparts"), Plain("nondict")}
    \cup FrameLines \cup NoContentLines

\* One line for each effect a line can have on the tracker (skipped, loop
\* left, exception, delta with each pair of ids): the bodies of the
\* specification that runs many operations on one client.
TrackerLines ==
    {Plain("empty"), Plain("done"), Plain("nocontent")}
    \cup {Frame("Hi there", c, "m2", "slug", "ascii") : c \in ConvIds}


\* ---------------------------------------------------------------- client
\* A client is a record c:
\*   mode                          "sync" (Chatbot) or "async" (AsyncChatbot)
\*   conversation_id, parent_id, conversation_mapping,
\*   conversation_id_prev_queue, parent_id_prev_queue    the fields of self
\*   uuid_count                    identifiers drawn so far
\*   pc                            "idle": no generator is running
\*                                 "loop": the generator is inside the line loop
\*                                 "yield": the generator is suspended at yield
\*   frame                         the locals of the running ask
\*   obs                           what the caller has observed of the last
\*                                 operation (history variables)

NoRequest == [conversation_id |-> "", parent_message_id |-> ""]
NoDelta == [message |-> "", conversation_id |-> "", parent_id |-> "", model |-> ""]
NoFrame == [prompt |-> "", conversation_id |-> None, parent_id |-> None]
NoLine == Plain("")

Tracker(c) ==
    [conversation_id |-> c.conversation_id,
     parent_id |-> c.parent_id,
     conversation_mapping |-> c.conversation_mapping,
     conversation_id_prev_queue |-> c.conversation_id_prev_queue,
     parent_id_prev_queue |-> c.parent_id_prev_queue]

\* the observation record at the start of operation op
NewObs(c, op, conv, parent, num) ==
    [op |-> op, arg_conversation_id |-> conv, arg_parent_id |-> parent, num |-> num,
     prompt |-> "", status |-> "", mapping |-> <<>>, outcome |-> NoOutcome, n_yield |-> 0, delta |-> NoDelta, request |-> NoRequest,
     posts |-> 0, resync_calls |-> 0, resync_runs |-> 0,
     pre |-> Tracker(c)]

\* Python's  a or b  on identifiers (None is the only falsy value in use)
Or(a, b) == IF a # None THEN a ELSE b

\* dict assignment  d[k] = v
DictSet(d, k, v) == [x \in DOMAIN d \cup {k} |-> IF x = k THEN v ELSE d[x]]

\* an exception leaves the generator: it is finished
Raise(c, e) == [c EXCEPT !.pc = "idle", !.frame = NoFrame, !.obs.outcome = e]

\* Chatbot.__map_conversations; in AsyncChatbot.ask the call
\* self.__map_conversations() creates a coroutine that is never awaited,
\* so its body does not run
map_conversations(mode, mapping) ==
    IF mode = "sync"
    THEN [x \in DOMAIN mapping \cup RemoteItems |->
            IF x \in RemoteItems THEN RemoteCurrentNode[x] ELSE mapping[x]]
    ELSE mapping

\* Chatbot.__check_response / AsyncChatbot.__check_response:
\* the exception raised for the status, NoOutcome when none
check_response(mode, status) ==
    IF mode = "sync"
    THEN IF status # "200" THEN Error("OpenAI", status, "<response.text>") ELSE NoOutcome
    ELSE IF status \notin {"200"} THEN Exc("HTTPStatusError", status) ELSE NoOutcome

\* a slip: only the conversation id is appended
push_history_conversation_only(c, conversation_id, parent_id) ==
    [c EXCEPT !.conversation_id_prev_queue = Append(@, conversation_id)]

\* a slip: nothing is appended for a request without a conversation id
push_history_of_conversations(c, conversation_id, parent_id) ==
    IF conversation_id = None THEN c
    ELSE [c EXCEPT !.conversation_id_prev_queue = Append(@, conversation_id),
                   !.parent_id_prev_queue = Append(@, parent_id)]

\* a slip: the current ids of the client are appended, not those of the request
push_history_of_current_ids(c, conversation_id, parent_id) ==
    [c EXCEPT !.conversation_id_prev_queue = Append(@, c.conversation_id),
              !.parent_id_prev_queue = Append(@, c.parent_id)]

\* ask appends the ids of the request to the history stacks (line 332-335 / 583-586)
push_history(c, conversation_id, parent_id) ==
    [c EXCEPT !.conversation_id_prev_queue = Append(@, conversation_id),
              !.parent_id_prev_queue = Append(@, parent_id)]

\* a slip: the current parent id is kept when the conversation changes
ParentKeptOnSwitch(c, conversation_id) == c.parent_id

\* a slip: the test  conversation_id is not None  is left out
ParentAfterAnyDifference(c, conversation_id) ==
    IF conversation_id # c.conversation_id THEN None ELSE c.parent_id

\* ask, line 290-292 / 555-556
ParentAfterSwitch(c, conversation_id) ==
    IF conversation_id # None /\ conversation_id # c.conversation_id
    THEN None ELSE c.parent_id

\* ask draws a fresh parent id (line 296-297 / 560-561)
AskDrawsUuid(c, conversation_id, parent_id) ==
    /\ ~(parent_id # None /\ conversation_id = None)
    /\ Or(conversation_id, c.conversation_id) = None
    /\ Or(parent_id, ParentAfterSwitch(c, conversation_id)) = None

\* ask, from the call to the status check (line 286-342 / 552-594)
ask_begin(c, prompt, conversation_id, parent_id, status) ==
    LET c0 == [c EXCEPT !.obs = [NewObs(c, "ask", conversation_id, parent_id, 0)
                                    EXCEPT !.prompt = prompt]]
    IN
    IF parent_id # None /\ conversation_id = None
    THEN Raise(c0, Error("User", "conversation_id must be set once parent_id is set",
                         IF c.mode = "sync" THEN "-1" ELSE "1"))
    ELSE
    LET c1 == [c0 EXCEPT !.parent_id = ParentAfterSwitch(c, conversation_id)]
        conv == Or(conversation_id, c1.conversation_id)
        par1 == Or(parent_id, c1.parent_id)
        fresh == conv = None /\ par1 = None
        par2 == IF fresh THEN uuid4(c1.uuid_count + 1) ELSE par1
        c2 == [c1 EXCEPT !.uuid_count = IF fresh THEN @ + 1 ELSE @]
        lookup == conv # None /\ par2 = None
        resync == lookup /\ conv \notin DOMAIN c2.conversation_mapping
        c3 == [c2 EXCEPT !.conversation_mapping =
                            IF resync THEN map_conversations(c.mode, @) ELSE @,
                         !.obs.resync_calls = IF resync THEN 1 ELSE 0,
                         !.obs.resync_runs = IF resync /\ c.mode = "sync" THEN 1 ELSE 0]
    IN
    IF lookup /\ conv \notin DOMAIN c3.conversation_mapping
    THEN Raise(c3, Exc("KeyError", conv))
    ELSE
    LET par3 == IF lookup THEN c3.conversation_mapping[conv] ELSE par2
        c4 == [push_history(c3, conv, par3)
                  EXCEPT !.obs.request = [conversation_id |-> conv, parent_message_id |-> par3],
                         !.obs.posts = 1,
                         !.obs.mapping = c3.conversation_mapping,
                         !.obs.status = status]
        e == check_response(c.mode, status)
    IN
    IF e # NoOutcome
    THEN Raise(c4, e)
    ELSE [c4 EXCEPT !.pc = "loop",
                    !.frame = [prompt |-> prompt, conversation_id |-> conv,
                               parent_id |-> par3]]


\* ---------------------------------------------------------------- parser
\* "[DONE]" in line  (AsyncChatbot.ask, line 600), after the prefix is cut
contains_done(line) ==
    \/ line.kind = "done"
    \/ line.kind = "frame" /\ line.text = "say [DONE]"

\* json.loads(line) succeeds.  Chatbot.ask reads bytes and decodes them with
\* str(line)[2:-1] and three replace calls (line 344, 355-357): a raw
\* non-ASCII byte becomes a \x.. escape, which is not JSON.
\* AsyncChatbot.ask reads decoded text (line 595).
json_loads_ok(mode, line) ==
    /\ line.kind \in {"frame", "noparts", "nocontent", "nondict"}
    /\ mode = "sync" => line.enc = "ascii"

\* __check_fields: data["message"]["content"] raises neither TypeError nor KeyError
check_fields(line) == line.kind \in {"frame", "noparts"}

\* Chatbot.ask, line 364-379: the exception for a payload that fails __check_fields
field_missing(line) ==
    IF line.kind = "nondict"
    THEN Exc("AttributeError", "get")
    ELSE IF line.detail = "ratelimit"
    THEN Error("ask", RATE_LIMIT_DETAIL, "2")
    ELSE IF line.detail \in {"otherstr", "null"}
    THEN Exc("AttributeError", "get")
    ELSE IF line.detail = "invalidkey"
    THEN Error("ask", "<detail.message>", "3")
    ELSE Error("ask", "Field missing", "1")

\* line["message"]["metadata"]["model_slug"]: Chatbot.ask catches KeyError
\* (line 385-388); AsyncChatbot.ask tests  "model_slug" in metadata  (line 613)
model_slug(line) == IF line.meta = "slug" THEN "model-slug" ELSE None

\* a slip: the ids become current but the mapping is not updated
commit_without_mapping(c) ==
    LET conversation_id == c.frame.conversation_id
        parent_id == c.frame.parent_id
    IN [c EXCEPT !.parent_id = IF parent_id # None THEN parent_id ELSE @,
                 !.conversation_id = IF conversation_id # None THEN conversation_id ELSE @,
                 !.pc = "idle", !.frame = NoFrame, !.obs.outcome = DONE]

\* the statements after the loop (line 398-402 / 620-624)
commit(c) ==
    LET conversation_id == c.frame.conversation_id
        parent_id == c.frame.parent_id
    IN [c EXCEPT !.conversation_mapping = DictSet(@, conversation_id, parent_id),
                 !.parent_id = IF parent_id # None THEN parent_id ELSE @,
                 !.conversation_id = IF conversation_id # None THEN conversation_id ELSE @,
                 !.pc = "idle", !.frame = NoFrame, !.obs.outcome = DONE]

\* yield {...} (line 383-397 / 611-619)
yield_delta(c, line) ==
    [c EXCEPT !.frame.conversation_id = line.conversation_id,
              !.frame.parent_id = line.id,
              !.pc = "yield",
              !.obs.n_yield = @ + 1,
              !.obs.delta = [message |-> line.text,
                             conversation_id |-> line.conversation_id,
                             parent_id |-> line.id,
                             model |-> model_slug(line)]]

\* one iteration of the loop of Chatbot.ask (line 343-397)
sync_line(c, line) ==
    IF line.kind = "fault"
    THEN Raise(c, Exc("Exception", "Error: Internal Server Error"))
    ELSE IF line.kind = "empty" THEN c
    ELSE IF line.kind = "done" THEN commit(c)
    ELSE IF ~json_loads_ok("sync", line) THEN c
    ELSE IF ~check_fields(line) THEN Raise(c, field_missing(line))
    ELSE IF line.kind = "noparts" THEN Raise(c, Exc("IndexError", "parts"))
    ELSE IF line.text = c.frame.prompt THEN c
    ELSE yield_delta(c, line)

\* one iteration of the loop of AsyncChatbot.ask (line 595-619)
async_line(c, line) ==
    IF line.kind = "empty" THEN c
    ELSE IF contains_done(line) THEN commit(c)
    ELSE IF ~json_loads_ok("async", line) THEN c
    ELSE IF ~check_fields(line) THEN Raise(c, Exc("Exception", "Field missing. Details: "))
    ELSE IF line.kind = "noparts" THEN Raise(c, Exc("IndexError", "parts"))
    ELSE IF line.meta = "absent" THEN Raise(c, Exc("KeyError", "metadata"))
    ELSE yield_delta(c, line)

\* a slip: the decode error of a line is not caught
ask_line_uncaught(c, line) ==
    LET c0 == [c EXCEPT !.pc = "loop"]
    IN IF line.kind = "garbage" THEN Raise(c0, Exc("JSONDecodeError", ""))
       ELSE IF c.mode = "sync" THEN sync_line(c0, line) ELSE async_line(c0, line)

\* the generator is resumed and reads the next line of the body
ask_line(c, line) ==
    LET c0 == [c EXCEPT !.pc = "loop"]
    IN IF c.mode = "sync" THEN sync_line(c0, line) ELSE async_line(c0, line)

\* the body ends: the loop is left without break
ask_end_of_body(c) == commit(c)

\* a slip: the statements after the loop also run when the generator is dropped
ask_close_commits(c) == [commit(c) EXCEPT !.obs.outcome = CLOSED]

\* the caller drops the suspended generator: GeneratorExit at the yield
ask_close(c) == [c EXCEPT !.pc = "idle", !.frame = NoFrame, !.obs.outcome = CLOSED]

\* ---------------------------------------------------------------- reset / rollback
\* a slip: reset also forgets the history and the mapping
reset_chat_forgets(c) ==
    [c EXCEPT !.obs = NewObs(c, "reset_chat", None, None, 0),
              !.conversation_id = None,
              !.parent_id = uuid4(c.uuid_count + 1),
              !.uuid_count = @ + 1,
              !.conversation_mapping = <<>>,
              !.conversation_id_prev_queue = <<>>,
              !.parent_id_prev_queue = <<>>]

\* Chatbot.reset_chat
reset_chat(c) ==
    [c EXCEPT !.obs = NewObs(c, "reset_chat", None, None, 0),
              !.conversation_id = None,
              !.parent_id = uuid4(c.uuid_count + 1),
              !.uuid_count = @ + 1]

\* list.pop()
Pop(q) == SubSeq(q, 1, Len(q) - 1)
Top(q) == q[Len(q)]

\* a slip: pop(0), the oldest entry, instead of pop()
RECURSIVE rollback_loop_oldest(_, _)
rollback_loop_oldest(c, num) ==
    IF num <= 0 THEN c
    ELSE IF Len(c.conversation_id_prev_queue) = 0
    THEN [c EXCEPT !.obs.outcome = Exc("IndexError", "pop from empty list")]
    ELSE rollback_loop_oldest([c EXCEPT !.conversation_id = Head(c.conversation_id_prev_queue),
                                        !.conversation_id_prev_queue = Tail(@),
                                        !.parent_id = Head(c.parent_id_prev_queue),
                                        !.parent_id_prev_queue = Tail(@)],
                              num - 1)

\* a slip: the popped parent id is not made current
RECURSIVE rollback_loop_keeps_parent(_, _)
rollback_loop_keeps_parent(c, num) ==
    IF num <= 0 THEN c
    ELSE IF Len(c.conversation_id_prev_queue) = 0
    THEN [c EXCEPT !.obs.outcome = Exc("IndexError", "pop from empty list")]
    ELSE rollback_loop_keeps_parent(
             [c EXCEPT !.conversation_id = Top(c.conversation_id_prev_queue),
                       !.conversation_id_prev_queue = Pop(@),
                       !.parent_id_prev_queue = Pop(@)],
             num - 1)

\* the loop of Chatbot.rollback_conversation:  for _ in range(num)
RECURSIVE rollback_loop(_, _)
rollback_loop(c, num) ==
    IF num <= 0 THEN c
    ELSE IF Len(c.conversation_id_prev_queue) = 0
    THEN [c EXCEPT !.obs.outcome = Exc("IndexError", "pop from empty list")]
    ELSE LET c1 == [c EXCEPT !.conversation_id = Top(c.conversation_id_prev_queue),
                             !.conversation_id_prev_queue = Pop(@)]
         IN IF Len(c1.parent_id_prev_queue) = 0
            THEN [c1 EXCEPT !.obs.outcome = Exc("IndexError", "pop from empty list")]
            ELSE rollback_loop([c1 EXCEPT !.parent_id = Top(c1.parent_id_prev_queue),
                                          !.parent_id_prev_queue = Pop(@)],
                               num - 1)

\* a slip: no more entries are popped than the stacks hold, and the call returns
rollback_conversation_clamped(c, num) ==
    LET h == Len(c.conversation_id_prev_queue)
        c1 == rollback_loop([c EXCEPT !.obs = NewObs(c, "rollback_conversation", None, None, num)],
                            IF num > h THEN h ELSE num)
    IN [c1 EXCEPT !.obs.outcome = DONE]

\* a slip: a rollback that cannot complete leaves the tracker as it was
rollback_conversation_atomic(c, num) ==
    LET c0 == [c EXCEPT !.obs = NewObs(c, "rollback_conversation", None, None, num)]
        c1 == rollback_loop(c0, num)
    IN IF c1.obs.outcome = NoOutcome
       THEN [c1 EXCEPT !.obs.outcome = DONE]
       ELSE [c0 EXCEPT !.obs.outcome = c1.obs.outcome]

\* Chatbot.rollback_conversation
rollback_conversation(c, num) ==
    LET c1 == rollback_loop([c EXCEPT !.obs = NewObs(c, "rollback_conversation", None, None, num)], num)
    IN IF c1.obs.outcome = NoOutcome THEN [c1 EXCEPT !.obs.outcome = DONE] ELSE c1


\* ---------------------------------------------------------------- credentials
\* An access token: form is "jwt" when its middle part decodes to a JSON
\* object, "badb64" when base64 decoding fails, "badjson" when the decoded
\* bytes are not JSON; has_exp and exp are the exp claim of the object;
\* origin tells the token of the cache file, the token of the caller's config
\* and the token a login returns apart.
Token(origin, form, has_exp, exp) ==
    [origin |-> origin, form |-> form, has_exp |-> has_exp, exp |-> exp]
NoToken == Token("", "", FALSE, 0)
ConfigToken == Token("config", "jwt", FALSE, 0)
LoginToken == Token("login", "jwt", FALSE, 0)
CachedTokens ==
    {Token("cache", "jwt", FALSE, 0), Token("cache", "badb64", FALSE, 0),
     Token("cache", "badjson", FALSE, 0)}
    \cup {Token("cache", "jwt", TRUE, e) : e \in 0..MaxTime}

\* The inputs of Chatbot.__init__: the clock, the cache file's entry for the
\* config's email, the keys of config, and whether a login would succeed.
AuthInput(now, cached, access_token, email, password, session_token, login_ok) ==
    [pc |-> "new", now |-> now, cached |-> cached, access_token |-> access_token,
     email |-> email, password |-> password, session_token |-> session_token,
     login_ok |-> login_ok, lookup |-> NoOutcome, authorization |-> NoToken,
     outcome |-> NoOutcome]

\* a config that holds an access token only, and no cache file
ConfigWithToken == AuthInput(1, NoToken, ConfigToken, FALSE, FALSE, FALSE, FALSE)

\* a slip: the exp claim is not compared with the clock
get_cached_access_token_unchecked(cached, now) ==
    IF cached = NoToken
    THEN [ret |-> NoToken, exc |-> NoOutcome]
    ELSE IF cached.form \in {"badb64", "badjson"}
    THEN [ret |-> NoToken,
          exc |-> Error("__get_cached_access_token", "Invalid access token", "5")]
    ELSE [ret |-> cached, exc |-> NoOutcome]

\* Chatbot.__get_cached_access_token: the token returned, or the exception
get_cached_access_token(cached, now) ==
    IF cached = NoToken
    THEN [ret |-> NoToken, exc |-> NoOutcome]
    ELSE IF cached.form \in {"badb64", "badjson"}
    THEN [ret |-> NoToken,
          exc |-> Error("__get_cached_access_token", "Invalid access token", "5")]
    ELSE IF cached.has_exp /\ cached.exp < now
    THEN [ret |-> NoToken,
          exc |-> Error("__get_cached_access_token", "Access token expired", "4")]
    ELSE [ret |-> cached, exc |-> NoOutcome]

\* Chatbot.__refresh_headers, with __cache_access_token when config has an email
refresh_headers(a, access_token) ==
    [a EXCEPT !.authorization = access_token,
              !.access_token = access_token,
              !.cached = IF a.email THEN access_token ELSE @,
              !.pc = "ready", !.outcome = DONE]

\* Chatbot.__check_credentials, with __login
check_credentials(a) ==
    IF a.access_token # NoToken
    THEN refresh_headers(a, a.access_token)
    ELSE IF ~(a.session_token \/ (a.email /\ a.password))
    THEN [a EXCEPT !.pc = "failed",
                   !.outcome = Exc("Exception", "Insufficient login details provided!")]
    ELSE IF a.login_ok
    THEN refresh_headers(a, LoginToken)
    ELSE [a EXCEPT !.pc = "failed", !.outcome = Exc("AuthError", "")]

\* Chatbot.__init__, line 117-126 and 145
init_credentials(a) ==
    LET r == get_cached_access_token(a.cached, a.now)
        a1 == [a EXCEPT !.lookup = r.exc]
    IN IF r.exc.exc = "Error" /\ r.exc.code = "5"
       THEN [a1 EXCEPT !.pc = "failed", !.outcome = r.exc]
       ELSE check_credentials(
                [a1 EXCEPT !.access_token =
                    IF r.exc = NoOutcome /\ r.ret # NoToken THEN r.ret ELSE @])

\* ---------------------------------------------------------------- state
VARIABLES mode, conversation_id, parent_id, conversation_mapping,
          conversation_id_prev_queue, parent_id_prev_queue,
          uuid_count, pc, frame, obs, watch, log, twin, auth

vars == <<mode, conversation_id, parent_id, conversation_mapping,
          conversation_id_prev_queue, parent_id_prev_queue,
          uuid_count, pc, frame, obs, watch, log, twin, auth>>

\* the client held in the variables
Client ==
    [mode |-> mode, conversation_id |-> conversation_id, parent_id |-> parent_id,
     conversation_mapping |-> conversation_mapping,
     conversation_id_prev_queue |-> conversation_id_prev_queue,
     parent_id_prev_queue |-> parent_id_prev_queue,
     uuid_count |-> uuid_count, pc |-> pc, frame |-> frame, obs |-> obs]

Install(c) ==
    /\ mode' = c.mode
    /\ conversation_id' = c.conversation_id
    /\ parent_id' = c.parent_id
    /\ conversation_mapping' = c.conversation_mapping
    /\ conversation_id_prev_queue' = c.conversation_id_prev_queue
    /\ parent_id_prev_queue' = c.parent_id_prev_queue
    /\ uuid_count' = c.uuid_count
    /\ pc' = c.pc
    /\ frame' = c.frame
    /\ obs' = c.obs
    /\ auth' = auth

\* Chatbot.__init__ (line 139-143): the ids come from the caller, the rest is empty
NewClient(m, conv, parent) ==
    LET c == [mode |-> m, conversation_id |-> conv, parent_id |-> parent,
              conversation_mapping |-> <<>>,
              conversation_id_prev_queue |-> <<>>,
              parent_id_prev_queue |-> <<>>,
              uuid_count |-> 0, pc |-> "idle", frame |-> NoFrame, obs |-> NoFrame]
    IN [c EXCEPT !.obs = NewObs(c, "__init__", conv, parent, 0)]

SeedConvIds == {None, "c1"}
SeedParentIds == {None, "m1"}
ArgConvIds == ConvIds \cup {None}
ArgParentIds == {None, "m1"}
NoTwin == NewClient("async", None, None)

\* History variables of the specification of one ask: the body read so far.
\*   line               the line read last
\*   fault_seen         the line  Internal Server Error  was read
\*   yield_after_fault  a delta was yielded after that line
\*   script             progress of the body
\*                        echo(Hello, m1, c1); (Hi there, m2, c1); [DONE]
\*                      for the prompt Hello: 1, 2, 3 after its lines, 9 once
\*                      the body differs
\*   clean              every line read was a frame, an empty line or [DONE]
NoWatch == [line |-> NoLine, fault_seen |-> FALSE, yield_after_fault |-> FALSE,
            script |-> 0, clean |-> TRUE]
EchoFrame == Frame("Hello", "c1", "m1", "absent", "ascii")
ReplyFrame == Frame("Hi there", "c1", "m2", "absent", "ascii")
ScriptNext(c, w, line) ==
    IF c.frame.prompt = "Hello" /\ w.script = 0 /\ line = EchoFrame THEN 1
    ELSE IF w.script = 1 /\ line = ReplyFrame THEN 2
    ELSE IF w.script = 2 /\ line = Plain("done") THEN 3
    ELSE 9
\* c read line and became c2
Watch(c, w, line, c2) ==
    [line |-> line,
     fault_seen |-> w.fault_seen \/ line.kind = "fault",
     yield_after_fault |-> w.yield_after_fault
                           \/ (w.fault_seen /\ c2.obs.n_yield > c.obs.n_yield),
     script |-> ScriptNext(c, w, line),
     clean |-> w.clean /\ line.kind \in {"frame", "empty", "done"}]

\* the variables hold the new client c
Start(c) ==
    /\ mode = c.mode
    /\ conversation_id = c.conversation_id
    /\ parent_id = c.parent_id
    /\ conversation_mapping = c.conversation_mapping
    /\ conversation_id_prev_queue = c.conversation_id_prev_queue
    /\ parent_id_prev_queue = c.parent_id_prev_queue
    /\ uuid_count = c.uuid_count
    /\ pc = c.pc
    /\ frame = c.frame
    /\ obs = c.obs
    /\ watch = NoWatch
    /\ log = <<>>
    /\ auth = init_credentials(ConfigWithToken)

\* Chatbot(config, conversation_id) or AsyncChatbot(config, conversation_id)
Init ==
    \E m \in Modes, conv \in SeedConvIds :
        Start(NewClient(m, conv, None)) /\ twin = NoTwin

\* ... with a parent_id as well
InitSeeded ==
    \E m \in Modes, conv \in SeedConvIds, parent \in SeedParentIds :
        Start(NewClient(m, conv, parent)) /\ twin = NoTwin

\* ---------------------------------------------------------------- actions
Running(c) == c.pc \in {"loop", "yield"}

CanAskUpTo(c, conv, parent, h) ==
    /\ c.pc = "idle"
    /\ Len(c.conversation_id_prev_queue) < h
    /\ AskDrawsUuid(c, conv, parent) => c.uuid_count < MaxUuid

CanAsk(c, conv, parent) == CanAskUpTo(c, conv, parent, MaxHistory)

\* the body may hold line next: it yields no delta beyond the bound
CanRead(c, line) ==
    /\ c.pc \in {"loop", "yield"}
    /\ ask_line(c, line).obs.n_yield <= MaxYield

\* the caller starts ask(prompt, conv, parent) and the server answers with status
Ask(prompt, conv, parent, status) ==
    /\ CanAsk(Client, conv, parent)
    /\ Install(ask_begin(Client, prompt, conv, parent, status))
    /\ watch' = NoWatch
    /\ UNCHANGED <<log, twin>>

ReadLine(line) ==
    /\ CanRead(Client, line)
    /\ Install(ask_line(Client, line))
    /\ UNCHANGED <<watch, log, twin>>

EndOfBody ==
    /\ Running(Client)
    /\ Install(ask_end_of_body(Client))
    /\ watch' = [watch EXCEPT !.line = NoLine, !.script = 9]
    /\ UNCHANGED <<log, twin>>

Close ==
    /\ pc = "yield"
    /\ Install(ask_close(Client))
    /\ UNCHANGED <<watch, log, twin>>

Reset ==
    /\ pc = "idle"
    /\ uuid_count < MaxUuid
    /\ Install(reset_chat(Client))
    /\ UNCHANGED <<watch, log, twin>>

Rollback(num) ==
    /\ pc = "idle"
    /\ Install(rollback_conversation(Client, num))
    /\ UNCHANGED <<watch, log, twin>>

Next ==
    \/ \E prompt \in Prompts, conv \in ArgConvIds,
          parent \in ArgParentIds, status \in Statuses :
            Ask(prompt, conv, parent, status)
    \/ \E line \in TrackerLines : ReadLine(line)
    \/ EndOfBody
    \/ Close
    \/ Reset
    \/ \E num \in 0..(MaxHistory + 1) : Rollback(num)

Spec == Init /\ [][Next]_vars

\* ---------------------------------------------------------------- one ask, every line
\* The first ask of a new client, with bodies over all of Lines.
FirstAsk(prompt, conv, parent, status) ==
    /\ obs.op = "__init__"
    /\ Ask(prompt, conv, parent, status)

\* ReadLine with the body recorded in watch
WatchedReadLine(line) ==
    /\ CanRead(Client, line)
    /\ Install(ask_line(Client, line))
    /\ watch' = Watch(Client, watch, line, ask_line(Client, line))
    /\ UNCHANGED <<log, twin>>

NextStream ==
    \/ \E prompt \in Prompts, conv \in ArgConvIds,
          parent \in ArgParentIds, status \in Statuses :
            FirstAsk(prompt, conv, parent, status)
    \/ \E line \in Lines : WatchedReadLine(line)
    \/ EndOfBody
    \/ Close

SpecStream == InitSeeded /\ [][NextStream]_vars

\* ---------------------------------------------------------------- asks with both ids, and rollback
\* Every ask passes a conversation_id and a parent_id.  log has one entry per
\* entry of the history stacks: the ids the ask was called with and the ids
\* that were current when it was called.
LogAsk(prompt, conv, parent, status) ==
    /\ CanAskUpTo(Client, conv, parent, MaxHistory + 1)
    /\ Install(ask_begin(Client, prompt, conv, parent, status))
    /\ log' = Append(log, [conversation_id |-> conv, parent_id |-> parent,
                            pre_conversation_id |-> conversation_id,
                            pre_parent_id |-> parent_id])
    /\ UNCHANGED <<watch, twin>>

LogRollback(num) ==
    /\ pc = "idle"
    /\ Install(rollback_conversation(Client, num))
    /\ log' = SubSeq(log, 1, Len(log) - num)
    /\ UNCHANGED <<watch, twin>>

NextLog ==
    \/ \E prompt \in Prompts, conv \in ConvIds, parent \in ArgParentIds \ {None},
          status \in Statuses :
            LogAsk(prompt, conv, parent, status)
    \/ \E line \in TrackerLines : ReadLine(line)
    \/ EndOfBody
    \/ Close
    \/ \E num \in 0..(MaxHistory + 2) : LogRollback(num)

SpecLog == Init /\ [][NextLog]_vars

\* ---------------------------------------------------------------- both modes side by side
\* The variables hold a Chatbot, twin an AsyncChatbot constructed with the same
\* arguments; every call and every line of the body is given to both.
InitPair ==
    \E conv \in SeedConvIds, parent \in SeedParentIds :
        Start(NewClient("sync", conv, parent)) /\ twin = NewClient("async", conv, parent)

PairAsk(prompt, conv, parent, status) ==
    /\ obs.op = "__init__"
    /\ CanAsk(Client, conv, parent)
    /\ CanAsk(twin, conv, parent)
    /\ Install(ask_begin(Client, prompt, conv, parent, status))
    /\ twin' = ask_begin(twin, prompt, conv, parent, status)
    /\ UNCHANGED <<watch, log>>

PairLine(line) ==
    /\ Running(Client) \/ Running(twin)
    /\ Running(Client) => CanRead(Client, line)
    /\ Running(twin) => CanRead(twin, line)
    /\ Install(IF Running(Client) THEN ask_line(Client, line) ELSE Client)
    /\ twin' = IF Running(twin) THEN ask_line(twin, line) ELSE twin
    /\ UNCHANGED <<watch, log>>

PairEnd ==
    /\ Running(Client) \/ Running(twin)
    /\ Install(IF Running(Client) THEN ask_end_of_body(Client) ELSE Client)
    /\ twin' = IF Running(twin) THEN ask_end_of_body(twin) ELSE twin
    /\ UNCHANGED <<watch, log>>

NextPair ==
    \/ \E prompt \in Prompts, conv \in ArgConvIds,
          parent \in ArgParentIds, status \in Statuses :
            PairAsk(prompt, conv, parent, status)
    \/ \E line \in Lines : PairLine(line)
    \/ PairEnd

SpecPair == InitPair /\ [][NextPair]_vars

TypeOK ==
    /\ mode \in Modes
    /\ conversation_id \in ConvIds \cup {None}
    /\ pc \in {"idle", "loop", "yield"}
    /\ Len(conversation_id_prev_queue) <= MaxHistory + 1
    /\ uuid_count \in 0..MaxUuid


\* ---------------------------------------------------------------- the error taxonomy
\* The classes of the specification, as the code raises them (the docstring
\* of class Error: -1 user error, 1 server error, 2 rate limit, 3 invalid request).
IsInvalidArgument(e) == e.exc = "Error" /\ e.code = "-1"
IsRateLimited(e) == e.exc = "Error" /\ e.code = "2"
IsInvalidCredentials(e) == e.exc = "Error" /\ e.code = "3"
IsMalformedResponse(e) == e.exc = "Error" /\ e.code = "1" /\ e.message = "Field missing"
IsUpstreamError(e) ==
    \/ e.exc = "Error" /\ (e.code = "1" \/ e.source = "OpenAI")
    \/ e.exc = "Exception" /\ e.message = "Error: Internal Server Error"
    \/ e.exc = "HTTPStatusError"

\* the ids the running or finished ask would commit: those of the last
\* delta, or those of the request when no delta was yielded
FinalConversationId ==
    IF obs.n_yield > 0 THEN obs.delta.conversation_id ELSE obs.request.conversation_id
FinalParentId ==
    IF obs.n_yield > 0 THEN obs.delta.parent_id ELSE obs.request.parent_message_id

\* ---------------------------------------------------------------- C1
\* C1 as stated: after rollback(k), k not larger than the number of asks on
\* the stacks, the current ids are the ids that were current immediately
\* before the k-th most recent ask.
C1_RollbackRestoresIdsBeforeAsk ==
    [][(pc = "idle" /\ obs'.op = "rollback_conversation"
        /\ obs'.num >= 1 /\ obs'.num <= Len(log))
       => /\ conversation_id' = log[Len(log) - obs'.num + 1].pre_conversation_id
          /\ parent_id' = log[Len(log) - obs'.num + 1].pre_parent_id]_vars

\* C1 amended: after rollback(k), the current ids are the conversation_id and
\* parent_id the k-th most recent ask was called with (the ids of its request).
C1_RollbackRestoresIdsOfAsk ==
    [][(pc = "idle" /\ obs'.op = "rollback_conversation"
        /\ obs'.num >= 1 /\ obs'.num <= Len(log))
       => /\ conversation_id' = log[Len(log) - obs'.num + 1].conversation_id
          /\ parent_id' = log[Len(log) - obs'.num + 1].parent_id]_vars

\* two asks with different ids, then rollback(2)
C1_Witness ==
    /\ obs.op = "rollback_conversation" /\ obs.num = 2 /\ obs.outcome = DONE
    /\ Len(obs.pre.conversation_id_prev_queue) = 2
    /\ obs.pre.conversation_id_prev_queue[1] # obs.pre.conversation_id_prev_queue[2]
    /\ conversation_id # obs.pre.conversation_id

\* ---------------------------------------------------------------- C2
\* C2: in every reachable state the two history stacks have the same length.
C2_StacksEqualLength ==
    Len(conversation_id_prev_queue) = Len(parent_id_prev_queue)

\* a rollback that underflowed after popping an entry an ask had pushed
C2_Witness ==
    /\ obs.op = "rollback_conversation" /\ obs.outcome.exc = "IndexError"
    /\ Len(obs.pre.conversation_id_prev_queue) >= 1
    /\ Len(conversation_id_prev_queue) = 0

\* ---------------------------------------------------------------- C3
\* C3: for the same body, prompt and initial tracker, Chatbot.ask and
\* AsyncChatbot.ask yield the same deltas and end the same way.
C3_SameDeltasInBothModes ==
    (obs.status = "200" /\ twin.obs.status = "200" /\ obs.pre = twin.obs.pre)
    => /\ pc = twin.pc
       /\ obs.outcome = twin.obs.outcome
       /\ obs.n_yield = twin.obs.n_yield
       /\ obs.delta = twin.obs.delta

\* ---------------------------------------------------------------- C4
\* C4: a frame whose text is the prompt is skipped: no delta, the ids to
\* commit stay those of the last delta (or of the request); and the body
\* echo(Hello, m1, c1); (Hi there, m2, c1); [DONE] for the prompt Hello
\* yields exactly the delta (Hi there, c1, m2).
C4_EchoFrameSkipped ==
    /\ (obs.status = "200" /\ watch.line.kind = "frame" /\ watch.line.text = obs.prompt)
       => /\ pc = "loop"
          /\ frame.conversation_id = FinalConversationId
          /\ frame.parent_id = FinalParentId
    /\ watch.script = 3
       => /\ pc = "idle" /\ obs.outcome = DONE /\ obs.n_yield = 1
          /\ obs.delta.message = "Hi there"
          /\ obs.delta.conversation_id = "c1"
          /\ obs.delta.parent_id = "m2"

\* ---------------------------------------------------------------- C5
\* C5: a decoded payload without message.content ends the ask at that line:
\* RateLimited for the rate-limit detail, InvalidCredentials for the detail
\* code invalid_api_key, MalformedResponse for every other payload.
C5_FieldMissingErrors ==
    (obs.status = "200" /\ watch.line.kind \in {"nocontent", "nondict"})
    => /\ pc = "idle"
       /\ IF watch.line.kind = "nocontent" /\ watch.line.detail = "ratelimit"
          THEN IsRateLimited(obs.outcome)
          ELSE IF watch.line.kind = "nocontent" /\ watch.line.detail = "invalidkey"
          THEN IsInvalidCredentials(obs.outcome)
          ELSE IsMalformedResponse(obs.outcome)

\* ---------------------------------------------------------------- C6
\* C6: once the raw line Internal Server Error was read the ask has ended
\* with UpstreamError, and no delta was yielded after that line.
C6_FaultLineRaises ==
    watch.fault_seen
    => /\ pc = "idle"
       /\ IsUpstreamError(obs.outcome)
       /\ ~watch.yield_after_fault

\* ---------------------------------------------------------------- C7
\* C7: while the body holds only frames, empty lines and [DONE], the ask
\* raises nothing, and it has ended normally once [DONE] was read.
C7_DoneEndsNormally ==
    (obs.status = "200" /\ watch.clean)
    => /\ obs.outcome \in {NoOutcome, DONE, CLOSED}
       /\ watch.line.kind = "done" => (pc = "idle" /\ obs.outcome = DONE)

\* ---------------------------------------------------------------- C8
\* C8: an ask that has a conversation id (one the remote service lists) and
\* no parent id runs exactly one resync when the conversation is not in the
\* mapping and none when it is, sends the mapping's entry as parent id, and
\* no entry is ever removed.
C8_ResyncOncePerUnknownConversation ==
    LET conv == Or(obs.arg_conversation_id, obs.pre.conversation_id)
        switch == obs.arg_conversation_id # None
                  /\ obs.arg_conversation_id # obs.pre.conversation_id
        parent == Or(obs.arg_parent_id, IF switch THEN None ELSE obs.pre.parent_id)
    IN /\ (obs.op = "ask" /\ conv \in RemoteItems /\ parent = None)
          => /\ obs.resync_runs = IF conv \in DOMAIN obs.pre.conversation_mapping THEN 0 ELSE 1
             /\ obs.resync_calls = obs.resync_runs
             /\ obs.posts = 1
             /\ conv \in DOMAIN obs.mapping
             /\ obs.request.parent_message_id = obs.mapping[conv]
       /\ DOMAIN obs.pre.conversation_mapping \subseteq DOMAIN conversation_mapping

\* ---------------------------------------------------------------- C9
\* C9: ask(parent_id without conversation_id) raises the user error (code -1),
\* posts nothing and leaves ids, mapping and stacks as they were.
C9_ParentWithoutConversation ==
    (obs.op = "ask" /\ obs.arg_parent_id # None /\ obs.arg_conversation_id = None)
    => /\ pc = "idle"
       /\ IsInvalidArgument(obs.outcome)
       /\ obs.posts = 0
       /\ Tracker(Client) = obs.pre

\* ---------------------------------------------------------------- C10
\* C10: an ask that ended normally has committed: the mapping holds the final
\* parent id under the final conversation id (its other entries are those at
\* the time of the request), the final parent id is current, and the final
\* conversation id is current unless it is None, when the current one is kept.
C10_CommitAtNormalEnd ==
    (obs.op = "ask" /\ obs.outcome = DONE)
    => /\ DOMAIN conversation_mapping = DOMAIN obs.mapping \cup {FinalConversationId}
       /\ \A k \in DOMAIN conversation_mapping :
            conversation_mapping[k] =
                IF k = FinalConversationId THEN FinalParentId ELSE obs.mapping[k]
       /\ FinalParentId # None => parent_id = FinalParentId
       /\ conversation_id = IF FinalConversationId # None
                            THEN FinalConversationId ELSE obs.pre.conversation_id

\* a delta moved the client to another conversation, and the ask ended normally
C10_Witness ==
    /\ obs.op = "ask" /\ obs.outcome = DONE /\ obs.n_yield >= 1
    /\ obs.pre.conversation_id # None
    /\ obs.delta.conversation_id # obs.pre.conversation_id
    /\ obs.delta.parent_id # obs.request.parent_message_id

\* ---------------------------------------------------------------- C11
\* C11: an ask whose request was answered with a status other than success
\* has ended with UpstreamError before reading a line: no delta was yielded,
\* and the exception carries the status code and the text of the body.
C11_BadStatusRaisesWithCodeAndBody ==
    (obs.op = "ask" /\ obs.posts = 1 /\ obs.status # "200")
    => /\ pc = "idle"
       /\ obs.n_yield = 0
       /\ IsUpstreamError(obs.outcome)
       /\ obs.status \in {obs.outcome.message, obs.outcome.code}
       /\ "<response.text>" \in {obs.outcome.message, obs.outcome.code}

\* ---------------------------------------------------------------- C12
\* C12: rollback(n) with n larger than the number of entries on the history
\* stacks ends with an exception (IndexError: pop from empty list); it never
\* returns normally.
C12_RollbackUnderflowRaises ==
    (obs.op = "rollback_conversation"
     /\ obs.num > Len(obs.pre.conversation_id_prev_queue))
    => /\ obs.outcome # DONE
       /\ obs.outcome.exc = "IndexError"

\* rollback of one entry more than an ask had pushed
C12_Witness ==
    /\ obs.op = "rollback_conversation"
    /\ Len(obs.pre.conversation_id_prev_queue) >= 1
    /\ obs.num = Len(obs.pre.conversation_id_prev_queue) + 1
    /\ obs.outcome.exc = "IndexError"

\* ---------------------------------------------------------------- C13
\* the identifiers a tracker holds
IdsIn(t) ==
    {t.conversation_id, t.parent_id}
    \cup {t.conversation_id_prev_queue[i] : i \in DOMAIN t.conversation_id_prev_queue}
    \cup {t.parent_id_prev_queue[i] : i \in DOMAIN t.parent_id_prev_queue}
    \cup DOMAIN t.conversation_mapping
    \cup {t.conversation_mapping[k] : k \in DOMAIN t.conversation_mapping}

\* C13: after reset_chat the current conversation id is None, the current
\* parent id is a newly drawn uuid that the tracker did not hold before, and
\* the two history stacks and conversation_mapping are as they were.
C13_ResetKeepsHistoryAndMapping ==
    obs.op = "reset_chat"
    => /\ conversation_id = None
       /\ parent_id = uuid4(uuid_count)
       /\ parent_id # None
       /\ parent_id \notin IdsIn(obs.pre)
       /\ conversation_id_prev_queue = obs.pre.conversation_id_prev_queue
       /\ parent_id_prev_queue = obs.pre.parent_id_prev_queue
       /\ conversation_mapping = obs.pre.conversation_mapping

\* reset of a client that is in a conversation, with history and a mapping entry
C13_Witness ==
    /\ obs.op = "reset_chat"
    /\ obs.pre.conversation_id # None
    /\ Len(conversation_id_prev_queue) >= 1
    /\ DOMAIN conversation_mapping # {}

\* ---------------------------------------------------------------- construction
\* The client before Chatbot.__init__ has looked at the credentials, for
\* every cache entry, clock and config.
InitAuth ==
    \E m \in Modes, now \in 1..MaxTime, cached \in CachedTokens \cup {NoToken},
       access_token \in {NoToken, ConfigToken},
       email \in BOOLEAN, password \in BOOLEAN, session_token \in BOOLEAN,
       login_ok \in BOOLEAN :
        LET c == NewClient(m, None, None)
        IN /\ mode = c.mode
           /\ conversation_id = c.conversation_id
           /\ parent_id = c.parent_id
           /\ conversation_mapping = c.conversation_mapping
           /\ conversation_id_prev_queue = c.conversation_id_prev_queue
           /\ parent_id_prev_queue = c.parent_id_prev_queue
           /\ uuid_count = c.uuid_count
           /\ pc = c.pc
           /\ frame = c.frame
           /\ obs = c.obs
           /\ watch = NoWatch
           /\ log = <<>>
           /\ twin = NoTwin
           /\ auth = AuthInput(now, cached, access_token, email, password,
                               session_token, login_ok)

Construct ==
    /\ auth.pc = "new"
    /\ auth' = init_credentials(auth)
    /\ UNCHANGED <<mode, conversation_id, parent_id, conversation_mapping,
                   conversation_id_prev_queue, parent_id_prev_queue,
                   uuid_count, pc, frame, obs, watch, log, twin>>

NextAuth == Construct

SpecAuth == InitAuth /\ [][NextAuth]_vars

\* ---------------------------------------------------------------- C14
\* C14: when the cache holds a token whose exp claim is before the clock, the
\* cache lookup raises Error code 4 (expired access token), and the access
\* token a constructed client holds and sends is not the token of the cache.
C14_ExpiredCachedTokenRejected ==
    [][(auth.pc = "new" /\ auth.cached # NoToken
        /\ auth.cached.has_exp /\ auth.cached.exp < auth.now)
       => /\ auth'.lookup.exc = "Error" /\ auth'.lookup.code = "4"
          /\ auth'.authorization.origin # "cache"
          /\ auth'.access_token.origin # "cache"]_vars

\* the cached token had expired, and the client logged in for a new one
C14_Witness ==
    /\ auth.pc = "ready"
    /\ auth.lookup.code = "4"
    /\ auth.authorization = LoginToken

\* ---------------------------------------------------------------- C15
\* C15 as stated: every ask, whatever its outcome, has appended exactly one
\* entry to each history stack.
C15_EveryAskPushesOnce ==
    obs.op = "ask"
    => /\ \E x \in ConvIds \cup {None} :
            conversation_id_prev_queue = Append(obs.pre.conversation_id_prev_queue, x)
       /\ Len(parent_id_prev_queue) = Len(obs.pre.parent_id_prev_queue) + 1
       /\ SubSeq(parent_id_prev_queue, 1, Len(obs.pre.parent_id_prev_queue))
            = obs.pre.parent_id_prev_queue

\* C15 amended: an ask that sent its request has appended exactly one entry
\* to each history stack, the conversation_id and the parent_message_id of
\* that request, whatever its outcome afterwards; an ask that ended before
\* sending (parent_id without conversation_id, conversation unknown to the
\* mapping) has appended nothing.
C15_AskThatSendsPushesOnce ==
    obs.op = "ask"
    => IF obs.posts = 1
       THEN /\ conversation_id_prev_queue
                = Append(obs.pre.conversation_id_prev_queue, obs.request.conversation_id)
            /\ parent_id_prev_queue
                = Append(obs.pre.parent_id_prev_queue, obs.request.parent_message_id)
       ELSE /\ obs.outcome.exc \in {"Error", "KeyError"}
            /\ conversation_id_prev_queue = obs.pre.conversation_id_prev_queue
            /\ parent_id_prev_queue = obs.pre.parent_id_prev_queue

\* a new conversation was asked for and the server answered with an error status
C15_Witness ==
    /\ obs.op = "ask" /\ obs.posts = 1 /\ obs.status = "500"
    /\ obs.request.conversation_id = None
    /\ Len(conversation_id_prev_queue) = Len(obs.pre.conversation_id_prev_queue) + 1

\* ---------------------------------------------------------------- C16
\* C16: each frame read from the body of a successful request yields exactly
\* one delta, unless its text is the prompt: the delta holds the frame's text,
\* conversation_id and message id, and the frame's model_slug or None.
C16_OneDeltaPerFrame ==
    [][(Running(Client) /\ obs.status = "200"
        /\ watch'.line.kind = "frame" /\ obs'.outcome # CLOSED)
       => IF watch'.line.text = obs.prompt
          THEN pc' = "loop" /\ obs'.n_yield = obs.n_yield
          ELSE /\ pc' = "yield"
               /\ obs'.n_yield = obs.n_yield + 1
               /\ obs'.delta =
                    [message |-> watch'.line.text,
                     conversation_id |-> watch'.line.conversation_id,
                     parent_id |-> watch'.line.id,
                     model |-> IF watch'.line.meta = "slug"
                               THEN "model-slug" ELSE None]]_vars

\* ---------------------------------------------------------------- C17
\* C17: the request an ask sends carries the ids of the resolution algorithm.
\* Conversation id: the explicit one, else the current one.  Parent id: the
\* explicit one; else the current one, unless an explicit conversation id
\* differs from the current one; when that leaves no parent id, a newly drawn
\* uuid if there is no conversation id either, and otherwise the mapping's
\* entry for the conversation.
C17_RequestIdsAreResolved ==
    LET explicit == obs.arg_conversation_id
        current == obs.pre.conversation_id
        conv == IF explicit # None THEN explicit ELSE current
        parent == IF obs.arg_parent_id # None THEN obs.arg_parent_id
                  ELSE IF explicit # None /\ explicit # current THEN None
                  ELSE obs.pre.parent_id
    IN (obs.op = "ask" /\ obs.posts = 1)
       => /\ obs.request.conversation_id = conv
          /\ IF parent # None
             THEN obs.request.parent_message_id = parent
             ELSE IF conv = None
             THEN /\ obs.request.parent_message_id = uuid4(uuid_count)
                  /\ obs.request.parent_message_id \notin IdsIn(obs.pre)
             ELSE /\ conv \in DOMAIN obs.mapping
                  /\ obs.request.parent_message_id = obs.mapping[conv]

\* the client held a parent id, and the ask named another conversation:
\* the parent id sent is the mapping's entry, not the one held
C17_Witness ==
    /\ obs.op = "ask" /\ obs.posts = 1
    /\ obs.pre.parent_id # None
    /\ obs.arg_conversation_id # None
    /\ obs.arg_conversation_id # obs.pre.conversation_id
    /\ obs.arg_parent_id = None
    /\ obs.request.parent_message_id # obs.pre.parent_id

NextConsume ==
    \/ \E prompt \in Prompts, conv \in ArgConvIds,
          parent \in ArgParentIds, status \in Statuses :
            FirstAsk(prompt, conv, parent, status)
    \/ \E line \in Lines : WatchedReadLine(line)
    \/ EndOfBody

SpecConsume == InitSeeded /\ [][NextConsume]_vars /\ WF_vars(EndOfBody)

\* the state of the ask invocation
Phase ==
    IF obs.op # "ask" THEN "INIT"
    ELSE IF pc # "idle" THEN "STREAMING"
    ELSE IF obs.outcome = DONE THEN "DONE"
    ELSE "ERROR"

\* ---------------------------------------------------------------- C19
\* C19: an ask goes INIT -> STREAMING -> DONE or ERROR (INIT -> ERROR when it
\* fails before the loop); DONE and ERROR are not left; DONE is entered only
\* at the line [DONE] or at the end of the body; an ask that sent its request
\* enters ERROR only for a status other than success, at the line Internal
\* Server Error, or at a payload that is not a frame; the request is sent at
\* most once; and an ask that is streaming eventually is DONE or in ERROR.
C19_AskStateMachine ==
    /\ [][/\ Phase = "INIT" => Phase' \in {"INIT", "STREAMING", "ERROR"}
          /\ Phase = "STREAMING" => Phase' \in {"STREAMING", "DONE", "ERROR"}
          /\ Phase \in {"DONE", "ERROR"} => Phase' = Phase
          /\ (Phase # "DONE" /\ Phase' = "DONE")
             => (watch'.line.kind = "done" \/ watch'.line = NoLine)
          /\ (Phase # "ERROR" /\ Phase' = "ERROR" /\ obs'.posts = 1)
             => \/ obs'.status # "200"
                \/ watch'.line.kind \in {"fault", "nocontent", "nondict", "noparts"}
          /\ obs'.posts <= 1]_vars
    /\ (Phase = "STREAMING") ~> (Phase \in {"DONE", "ERROR"})

\* ---------------------------------------------------------------- C20
\* C20 as stated: after an ask, however it ended, a current id is None only
\* if it was None before the call.
C20_AskNeverSetsNone ==
    (obs.op = "ask" /\ pc = "idle")
    => /\ conversation_id = None => obs.pre.conversation_id = None
       /\ parent_id = None => obs.pre.parent_id = None

\* C20 amended: during and after an ask the current conversation id is None
\* only if it was None before the call; the current parent id is None only if
\* it was None before the call, or if the ask named a conversation other than
\* the current one (the ask then sets it to None at its start) and has not
\* committed.
C20_OnlySwitchSetsParentNone ==
    obs.op = "ask"
    => /\ conversation_id = None => obs.pre.conversation_id = None
       /\ (parent_id = None /\ obs.pre.parent_id # None)
          => /\ obs.arg_conversation_id # None
             /\ obs.arg_conversation_id # obs.pre.conversation_id
             /\ obs.outcome # DONE

\* the client held a parent id, the ask named another conversation and ended
\* in an error: the parent id is gone
C20_Witness ==
    /\ obs.op = "ask" /\ pc = "idle"
    /\ obs.outcome \notin {NoOutcome, DONE, CLOSED}
    /\ obs.pre.parent_id # None
    /\ parent_id = None

\* ---------------------------------------------------------------- ask, rollback(1), ask again
\* log is empty, or holds one record: the request of an ask A that was
\* followed at once by rollback(1) (stage "rolled"), kept with stage "reasked"
\* while the next operation is an ask without explicit ids.  Every ask of
\* this specification starts on empty history stacks: the entry rollback(1)
\* pops is the one the ask before it pushed, and ask reads no stack.
ReaskAsk(prompt, conv, parent, status) ==
    /\ CanAsk(Client, conv, parent)
    /\ Len(conversation_id_prev_queue) = 0
    /\ Install(ask_begin(Client, prompt, conv, parent, status))
    /\ log' = IF Len(log) = 1 /\ log[1].stage = "rolled" /\ conv = None /\ parent = None
              THEN <<[log[1] EXCEPT !.stage = "reasked"]>>
              ELSE <<>>
    /\ UNCHANGED <<watch, twin>>

ReaskRollback(num) ==
    /\ pc = "idle"
    /\ Install(rollback_conversation(Client, num))
    /\ log' = IF obs.op = "ask" /\ obs.posts = 1 /\ num = 1
              THEN <<[request |-> obs.request, stage |-> "rolled"]>>
              ELSE <<>>
    /\ UNCHANGED <<watch, twin>>

NextReask ==
    \/ \E prompt \in Prompts, conv \in ArgConvIds,
          parent \in ArgParentIds, status \in Statuses :
            ReaskAsk(prompt, conv, parent, status)
    \/ \E line \in TrackerLines : ReadLine(line)
    \/ EndOfBody
    \/ Close
    \/ \E num \in 0..(MaxHistory + 1) : ReaskRollback(num)

SpecReask == Init /\ [][NextReask]_vars

\* ---------------------------------------------------------------- C21
\* C21: an ask A that sent a request, then rollback(1), then an ask without
\* explicit ids: this ask sends a request with the conversation_id and the
\* parent_message_id of A's request, and calls no resync.
C21_ReaskSendsSameIds ==
    (Len(log) = 1 /\ log[1].stage = "reasked")
    => /\ obs.op = "ask"
       /\ obs.posts = 1
       /\ obs.request = log[1].request
       /\ obs.resync_calls = 0

\* A named a conversation the mapping does not hold and got an error status;
\* the ask after the rollback sends A's ids without looking the mapping up
C21_Witness ==
    /\ Len(log) = 1 /\ log[1].stage = "reasked"
    /\ obs.posts = 1
    /\ obs.request.conversation_id # None
    /\ obs.request.conversation_id \notin DOMAIN obs.pre.conversation_mapping

\* ---------------------------------------------------------------- C22
\* the ask sent its request and ended with an exception or was dropped
AskFailedAfterSend ==
    /\ obs.op = "ask"
    /\ pc = "idle"
    /\ obs.posts = 1
    /\ obs.outcome \notin {NoOutcome, DONE}

\* C22: an ask that sent its request and ended with an error, or whose
\* generator the caller dropped, commits nothing: conversation_mapping is as it
\* was when the request was sent, the current conversation id is as it was
\* before the call, and the entry pushed for the call is on both stacks.
C22_NoCommitOnErrorOrClose ==
    AskFailedAfterSend
    => /\ conversation_mapping = obs.mapping
       /\ conversation_id = obs.pre.conversation_id
       /\ conversation_id_prev_queue =
              Append(obs.pre.conversation_id_prev_queue, obs.request.conversation_id)
       /\ parent_id_prev_queue =
              Append(obs.pre.parent_id_prev_queue, obs.request.parent_message_id)

\* a delta of another conversation was yielded before the generator was dropped
C22_Witness ==
    /\ AskFailedAfterSend
    /\ obs.outcome = CLOSED
    /\ obs.n_yield > 0
    /\ obs.delta.conversation_id # obs.pre.conversation_id

\* ---------------------------------------------------------------- C23
\* C23: rollback_conversation(n) called with h < n entries on the history
\* stacks pops all h entries before its pop fails: both stacks are empty and
\* the current conversation id and parent id are those of the oldest entry;
\* with h = 0 the tracker is as it was.
C23_UnderflowPopsEverything ==
    LET h == Len(obs.pre.conversation_id_prev_queue)
    IN (obs.op = "rollback_conversation" /\ h < obs.num)
       => /\ obs.outcome.exc = "IndexError"
          /\ conversation_id_prev_queue = <<>>
          /\ parent_id_prev_queue = <<>>
          /\ conversation_mapping = obs.pre.conversation_mapping
          /\ conversation_id = IF h = 0 THEN obs.pre.conversation_id
                               ELSE obs.pre.conversation_id_prev_queue[1]
          /\ parent_id = IF h = 0 THEN obs.pre.parent_id
                         ELSE obs.pre.parent_id_prev_queue[1]

\* two entries were on the stacks, the oldest differs from the newest and
\* from the current ids, and three were asked for
C23_Witness ==
    /\ obs.op = "rollback_conversation"
    /\ Len(obs.pre.conversation_id_prev_queue) = MaxHistory + 1
    /\ obs.num = MaxHistory + 2
    /\ obs.pre.conversation_id_prev_queue[1]
           # obs.pre.conversation_id_prev_queue[MaxHistory + 1]
    /\ obs.pre.conversation_id_prev_queue[1] # obs.pre.conversation_id
    /\ conversation_id = obs.pre.conversation_id_prev_queue[1]

\* ---------------------------------------------------------------- C24
\* C24: when the remote service reports a current node for every
\* conversation, no entry of parent_id_prev_queue is None and the request an
\* ask sent has a parent_message_id that is not None; entries of
\* conversation_id_prev_queue may be None.
C24_ParentEntriesNotNone ==
    /\ \A i \in DOMAIN parent_id_prev_queue : parent_id_prev_queue[i] # None
    /\ (obs.op = "ask" /\ obs.posts = 1) => obs.request.parent_message_id # None

\* the client held no parent id when the ask began (line 292 had cleared it
\* or none was ever set); the ask took the parent id from the mapping it had
\* resynchronised and pushed it
C24_Witness ==
    /\ obs.op = "ask" /\ obs.posts = 1
    /\ ParentAfterSwitch(obs.pre, obs.arg_conversation_id) = None
    /\ obs.arg_parent_id = None
    /\ obs.resync_runs = 1
    /\ Len(parent_id_prev_queue) >= 1
    /\ Top(parent_id_prev_queue) = RemoteCurrentNode[obs.request.conversation_id]

\* ---------------------------------------------------------------- C25
\* C25: in every reachable state the keys of conversation_mapping are
\* conversation ids: no ask, reset or rollback adds an entry with the key None,
\* not even an ask on a new conversation whose body yields no delta.
C25_NoNoneKey == None \notin DOMAIN conversation_mapping

====
